---- MODULE Spec2Model ----
(***************************************************************************)
(* A model of GeminiSpeechProcessor (src/diarize.py): the energy-based     *)
(* speech detector analyze_audio_content, the pipeline process(), and the  *)
(* transcript validator _validate_and_print_transcript.                    *)
(*                                                                         *)
(* Number representation (the code computes in floating point):            *)
(*   - amplitudes are normalized samples in thousandths (6 = 0.006);       *)
(*   - an RMS value sqrt(sumsq / n) is kept as the pair [sumsq, n] in      *)
(*     units of 10^-6 (n = 0 is numpy's NaN for the mean of no samples);   *)
(*   - speech_duration is kept in tenths of a second (speech_segments*0.1);*)
(*   - duration and silence_ratio are exact rationals [num, den];          *)
(*   - confidences are in hundredths (70 = 0.70).                          *)
(***************************************************************************)
EXTENDS Integers, Sequences, FiniteSets, TLC

VARIABLES audio, pc, analysis, analyze_error, engine_calls, validator_calls,
          raw, result, process_error

vars == <<audio, pc, analysis, analyze_error, engine_calls, validator_calls,
          raw, result, process_error>>

\* ------------------------------------------------------------------ bounds
MaxSamples == 5
MaxEntries == 5
MaxProcEntries == 1

\* --------------------------------------------------------------- constants
silence_threshold == 5
min_speech_duration == 2
window_divisor == 10
confidence_threshold == 70
default_confidence == 50
length_sanity_window == 20
length_sanity_factor == 3

\* ------------------------------------------------------------------ inputs
\* Normalized amplitudes a recording is made of: silence, a level just
\* below the silence threshold and a level just above it.
Amps == {0, 4, 6}

\* Frame rates a WAV header can carry (an unsigned field: 0 is readable).
SampleRates == {0, 5, 10, 15, 20}

\* Every sequence over S of length at most n.
SeqsUpTo(S, n) == UNION {[1..k -> S] : k \in 0..n}

\* A file that does not exist or cannot be opened, a file that opens but is
\* no WAV, and a decodable WAV (mono, already normalized by lines 65-80).
MissingFile == [kind |-> "missing", sample_rate |-> 0, samples |-> << >>]
CorruptFile == [kind |-> "corrupt", sample_rate |-> 0, samples |-> << >>]
WavFiles ==
    {[kind |-> "wav", sample_rate |-> sr, samples |-> s] :
        sr \in SampleRates, s \in SeqsUpTo(Amps, MaxSamples)}

AudioInputs == {MissingFile, CorruptFile} \cup WavFiles

\* ---------------------------------------------------------------- detector
RECURSIVE SumSq(_)
SumSq(s) == IF s = << >> THEN 0 ELSE Head(s) * Head(s) + SumSq(Tail(s))

\* rms = np.sqrt(np.mean(x**2)), kept as the pair it is computed from.
Rms(s) == [sumsq |-> SumSq(s), n |-> Len(s)]

\* rms > self.silence_threshold; a NaN (n = 0) compares false.
AboveSilence(r) ==
    r.n > 0 /\ r.sumsq > silence_threshold * silence_threshold * r.n

\* int(0.1 * sample_rate)
window_size(sample_rate) == sample_rate \div window_divisor

\* range(0, len(audio_data) - window_size, window_size), for window_size > 0
WindowStarts(n, w) == {i \in 0..(n - w - 1) : i % w = 0}

speech_segments(samples, w) ==
    Cardinality({i \in WindowStarts(Len(samples), w) :
                    AboveSilence(Rms(SubSeq(samples, i + 1, i + w)))})

\* The test without its energy conjunct.
HasSpeechAnyEnergy(speech_duration, rms) ==
    speech_duration >= min_speech_duration

\* speech_duration >= self.min_speech_duration and rms > self.silence_threshold
HasSpeech(speech_duration, rms) ==
    speech_duration >= min_speech_duration /\ AboveSilence(rms)

\* 1 - (speech_duration / duration) if duration > 0 else 1
SilenceRatio(speech_duration, n, sample_rate) ==
    IF n > 0
    THEN [num |-> window_divisor * n - speech_duration * sample_rate,
          den |-> window_divisor * n]
    ELSE [num |-> 1, den |-> 1]

\* The except branch of analyze_audio_content is taken: wave.open fails,
\* len / sample_rate divides by zero, or range() gets a step of zero.
AnalyzeRaises(a) ==
    \/ a.kind # "wav"
    \/ a.sample_rate = 0
    \/ window_size(a.sample_rate) = 0

FallbackAnalysis ==
    [has_speech |-> TRUE,
     duration |-> [num |-> 0, den |-> 1],
     rms_energy |-> [sumsq |-> 0, n |-> 1],
     speech_duration |-> 0,
     silence_ratio |-> [num |-> 1, den |-> 1]]

NormalAnalysis(a) ==
    LET n == Len(a.samples)
        rms == Rms(a.samples)
        speech_duration == speech_segments(a.samples, window_size(a.sample_rate))
    IN  [has_speech |-> HasSpeech(speech_duration, rms),
         duration |-> [num |-> n, den |-> a.sample_rate],
         rms_energy |-> rms,
         speech_duration |-> speech_duration,
         silence_ratio |-> SilenceRatio(speech_duration, n, a.sample_rate)]

analyze_audio_content(a) ==
    IF AnalyzeRaises(a) THEN FallbackAnalysis ELSE NormalAnalysis(a)

\* ------------------------------------------------- engine reply as JSON text
\* A reply is a sequence of JSON tokens.  An object literal is one token
\* carrying the entry it denotes; "junk" is text no JSON value starts with.
LB == [k |-> "lb"]
RB == [k |-> "rb"]
COMMA == [k |-> "comma"]
JUNK == [k |-> "junk"]

\* The confidence key of an entry: absent, null, or a number in hundredths.
ConfVals ==
    {[c |-> "absent"], [c |-> "null"],
     [c |-> "num", v |-> 69], [c |-> "num", v |-> 70], [c |-> "num", v |-> 95]}

TextVals == {<<"O", "k">>}

Entries == [text : TextVals, confidence : ConfVals]

JNull == [t |-> "null"]
JNum(n) == [t |-> "num", n |-> n]
JObj(e) == [t |-> "obj", e |-> e]
JArr(v) == [t |-> "arr", v |-> v]

\* What an array of a reply may hold: objects, and a bare number.
Elems == {JObj(e) : e \in Entries} \cup {JNum(1)}

Scalars == {JNull, JNum(0), JNum(1)} \cup {JObj(e) : e \in Entries}

ValuesUpTo(n) == Scalars \cup {JArr(v) : v \in SeqsUpTo(Elems, n)}

RECURSIVE Render(_)
RECURSIVE RenderElems(_)
RenderElems(v) ==
    IF Len(v) = 0 THEN << >>
    ELSE IF Len(v) = 1 THEN Render(v[1])
    ELSE Render(v[1]) \o <<COMMA>> \o RenderElems(Tail(v))

Render(val) ==
    CASE val.t = "null" -> <<[k |-> "null"]>>
      [] val.t = "num" -> <<[k |-> "num", n |-> val.n]>>
      [] val.t = "obj" -> <<[k |-> "obj", e |-> val.e]>>
      [] val.t = "arr" -> <<LB>> \o RenderElems(val.v) \o <<RB>>

ValidTexts(n) == {Render(val) : val \in ValuesUpTo(n)}

\* Texts that are not JSON: the empty text, junk such as "{not json", an
\* unclosed array, a trailing comma, two values in a row, a stray bracket.
MalformedTexts ==
    {<< >>, <<JUNK>>, <<JUNK, JUNK>>, <<RB>>, <<LB, COMMA, RB>>}
    \cup {<<LB>> \o Render(x) : x \in Elems}
    \cup {<<LB>> \o Render(x) \o <<COMMA, RB>> : x \in Elems}
    \cup {Render(x) \o Render(x) : x \in Elems}

ValidReplyTexts == ValidTexts(MaxEntries)
Texts == ValidReplyTexts \cup MalformedTexts
ProcTexts == ValidTexts(MaxProcEntries) \cup MalformedTexts

\* ----------------------------------------------------------- json.loads
ParseFail == [ok |-> FALSE, value |-> JNull, next |-> 0]

RECURSIVE ParseValue(_, _)
RECURSIVE ParseElems(_, _, _)
ParseElems(toks, i, acc) ==
    LET r == ParseValue(toks, i)
    IN  IF ~r.ok \/ r.next > Len(toks) THEN ParseFail
        ELSE IF toks[r.next].k = "comma"
             THEN ParseElems(toks, r.next + 1, Append(acc, r.value))
        ELSE IF toks[r.next].k = "rb"
             THEN [ok |-> TRUE, value |-> JArr(Append(acc, r.value)),
                   next |-> r.next + 1]
        ELSE ParseFail

ParseValue(toks, i) ==
    IF i > Len(toks) THEN ParseFail
    ELSE CASE toks[i].k = "null" ->
                [ok |-> TRUE, value |-> JNull, next |-> i + 1]
           [] toks[i].k = "num" ->
                [ok |-> TRUE, value |-> JNum(toks[i].n), next |-> i + 1]
           [] toks[i].k = "obj" ->
                [ok |-> TRUE, value |-> JObj(toks[i].e), next |-> i + 1]
           [] toks[i].k = "lb" ->
                IF i + 1 <= Len(toks) /\ toks[i + 1].k = "rb"
                THEN [ok |-> TRUE, value |-> JArr(<< >>), next |-> i + 2]
                ELSE ParseElems(toks, i + 1, << >>)
           [] OTHER -> ParseFail

\* A parser that swallows the decode error and yields None instead.
json_loads_lenient(text) ==
    LET r == ParseValue(text, 1)
    IN  IF r.ok /\ r.next = Len(text) + 1
        THEN [ok |-> TRUE, value |-> r.value]
        ELSE [ok |-> TRUE, value |-> JNull]

\* json.loads(json_text): ok is FALSE where it raises JSONDecodeError.
json_loads(text) ==
    LET r == ParseValue(text, 1)
    IN  IF r.ok /\ r.next = Len(text) + 1
        THEN [ok |-> TRUE, value |-> r.value]
        ELSE [ok |-> FALSE, value |-> JNull]

\* ------------------------------------------------------------ validator
\* "not transcript": None, 0 and the empty list are falsy.
Falsy(val) ==
    \/ val.t = "null"
    \/ val.t = "num" /\ val.n = 0
    \/ val.t = "arr" /\ Len(val.v) = 0

\* entry.get("confidence", 0.5)
entry_confidence(e) ==
    IF e.confidence.c = "absent"
    THEN [c |-> "num", v |-> default_confidence]
    ELSE e.confidence

\* "confidence < 0.7" raises TypeError when confidence is None or a string.
CompareRaises(conf) == conf.c # "num"

\* The comparison with the threshold itself rejected.
LowConfidenceInclusive(conf) == conf.v <= confidence_threshold

\* confidence < 0.7
LowConfidence(conf) == conf.v < confidence_threshold

\* The list literal of lines 223-224: it holds no phrase.
suspicious_phrases == << >>

\* any(phrase in text.lower() for phrase in suspicious_phrases): one test
\* per phrase of the list.  The list is empty, so the generator yields
\* nothing, text.lower() is never evaluated and any() is False for every
\* text; the substring test itself is not modelled.
Suspicious(text) == \E j \in 1..Len(suspicious_phrases) : TRUE

\* The loop of lines 211-230 from entry i on.  raised: entry.get on a
\* non-object (AttributeError) or the confidence comparison (TypeError)
\* ended the loop; the lines printed before it stay printed.
RECURSIVE FilterEntries(_, _, _, _)
FilterEntries(entries, i, validated, filtered) ==
    IF i > Len(entries)
    THEN [raised |-> FALSE, validated |-> validated, filtered |-> filtered]
    ELSE IF entries[i].t # "obj"
    THEN [raised |-> TRUE, validated |-> validated, filtered |-> filtered]
    ELSE LET entry == entries[i].e
             confidence == entry_confidence(entry)
         IN  IF CompareRaises(confidence)
             THEN [raised |-> TRUE, validated |-> validated,
                   filtered |-> filtered]
             ELSE IF LowConfidence(confidence)
             THEN FilterEntries(entries, i + 1, validated,
                     Append(filtered,
                            [entry |-> entry, reason |-> "LowConfidence"]))
             ELSE IF Suspicious(entry.text)
             THEN FilterEntries(entries, i + 1, validated,
                     Append(filtered,
                            [entry |-> entry, reason |-> "SuspiciousContent"]))
             ELSE FilterEntries(entries, i + 1, Append(validated, entry),
                                filtered)

\* max(1, int(audio_analysis['speech_duration'] / 2))
expected_max_entries(a) ==
    IF a.speech_duration \div length_sanity_window > 1
    THEN a.speech_duration \div length_sanity_window
    ELSE 1

\* Lines 233-237: the warning printed for a transcript longer than expected.
SanityWarnings(validated, a) ==
    IF Len(validated) > 0
       /\ Len(validated) > expected_max_entries(a) * length_sanity_factor
    THEN <<[expected |-> expected_max_entries(a), got |-> Len(validated)]>>
    ELSE << >>

NoRaw == [shown |-> FALSE, text |-> << >>]

NoResult ==
    [outcome |-> "none", validated |-> << >>, filtered |-> << >>,
     warnings |-> << >>, raw_printed |-> NoRaw]

\* What _validate_and_print_transcript prints, as a value:
\*   parse_failed  the raw text under "JSON Parse Failed"  (lines 251-253)
\*   no_speech     "No speech detected."                   (lines 205-207)
\*   exception     an exception other than JSONDecodeError left the method
\*   none_valid    "No high-confidence speech detected after validation."
\*   transcript    the validated entries, one line each    (lines 244-249)
validate_and_print_transcript(json_text, a) ==
    LET parsed == json_loads(json_text)
    IN  IF ~parsed.ok
        THEN [NoResult EXCEPT !.outcome = "parse_failed",
                              !.raw_printed = [shown |-> TRUE,
                                               text |-> json_text]]
        ELSE IF Falsy(parsed.value)
        THEN [NoResult EXCEPT !.outcome = "no_speech"]
        ELSE IF parsed.value.t # "arr"
        THEN [NoResult EXCEPT !.outcome = "exception"]
        ELSE LET f == FilterEntries(parsed.value.v, 1, << >>, << >>)
             IN  IF f.raised
                 THEN [NoResult EXCEPT !.outcome = "exception",
                                       !.filtered = f.filtered]
                 ELSE IF Len(f.validated) = 0
                 THEN [NoResult EXCEPT !.outcome = "none_valid",
                                       !.filtered = f.filtered]
                 ELSE [outcome |-> "transcript",
                       validated |-> f.validated,
                       filtered |-> f.filtered,
                       warnings |-> SanityWarnings(f.validated, a),
                       raw_printed |-> NoRaw]

\* ---------------------------------------------------------------- process
NoAnalysis ==
    [has_speech |-> FALSE,
     duration |-> [num |-> 0, den |-> 1],
     rms_energy |-> [sumsq |-> 0, n |-> 1],
     speech_duration |-> 0,
     silence_ratio |-> [num |-> 1, den |-> 1]]

\* A process() without the early return.
ProceedsAlways(a) == TRUE

\* The negation of the early-return test "if not audio_analysis['has_speech']"
Proceeds(a) == a.has_speech

\* open(audio_path, "rb") succeeds
FileOpens(a) == a.kind # "missing"

InitWith(inputs) ==
    /\ audio \in inputs
    /\ pc = "start"
    /\ analysis = NoAnalysis
    /\ analyze_error = FALSE
    /\ engine_calls = 0
    /\ validator_calls = 0
    /\ raw = NoRaw
    /\ result = NoResult
    /\ process_error = "none"

\* Line 125: self.analyze_audio_content(audio_path)
Analyze ==
    /\ pc = "start"
    /\ analysis' = analyze_audio_content(audio)
    /\ analyze_error' = AnalyzeRaises(audio)
    /\ pc' = "analyzed"
    /\ UNCHANGED <<audio, engine_calls, validator_calls, raw, result,
                   process_error>>

\* Lines 128-132: no speech, return before anything else is done.
EarlyReturn ==
    /\ pc = "analyzed"
    /\ ~Proceeds(analysis)
    /\ pc' = "done"
    /\ UNCHANGED <<audio, analysis, analyze_error, engine_calls,
                   validator_calls, raw, result, process_error>>

\* Lines 135-136: the file is opened outside any try block.
LoadAudio ==
    /\ pc = "analyzed"
    /\ Proceeds(analysis)
    /\ FileOpens(audio)
    /\ pc' = "loaded"
    /\ UNCHANGED <<audio, analysis, analyze_error, engine_calls,
                   validator_calls, raw, result, process_error>>

LoadAudioRaises ==
    /\ pc = "analyzed"
    /\ Proceeds(analysis)
    /\ ~FileOpens(audio)
    /\ pc' = "raised"
    /\ process_error' = "escaped"
    /\ UNCHANGED <<audio, analysis, analyze_error, engine_calls,
                   validator_calls, raw, result>>

\* Lines 180-187: the engine is called and replies with a text.
GenerateContent(replies) ==
    /\ pc = "loaded"
    /\ engine_calls' = engine_calls + 1
    /\ \E text \in replies : raw' = [shown |-> TRUE, text |-> text]
    /\ pc' = "responded"
    /\ UNCHANGED <<audio, analysis, analyze_error, validator_calls, result,
                   process_error>>

\* Lines 180-187 and 195-196: the engine call raises; process catches it.
GenerateContentRaises ==
    /\ pc = "loaded"
    /\ engine_calls' = engine_calls + 1
    /\ process_error' = "caught"
    /\ pc' = "done"
    /\ UNCHANGED <<audio, analysis, analyze_error, validator_calls, raw,
                   result>>

\* Line 193 with lines 195-196: the validator runs on the reply; an
\* exception it lets through is caught by process.
Validate ==
    /\ pc = "responded"
    /\ validator_calls' = validator_calls + 1
    /\ result' = validate_and_print_transcript(raw.text, analysis)
    /\ process_error' =
          IF result'.outcome = "exception" THEN "caught" ELSE "none"
    /\ pc' = "done"
    /\ UNCHANGED <<audio, analysis, analyze_error, engine_calls, raw>>

NextWith(replies) ==
    \/ Analyze
    \/ EarlyReturn
    \/ LoadAudio
    \/ LoadAudioRaises
    \/ GenerateContent(replies)
    \/ GenerateContentRaises
    \/ Validate

\* process() on every audio input, the engine replying with short texts.
Init == InitWith(AudioInputs)
Next == NextWith(ProcTexts)
Spec == Init /\ [][Next]_vars

\* process() on four recordings (missing, corrupt, silent, speech), the
\* engine replying with every text up to MaxEntries entries.
SilentWav == [kind |-> "wav", sample_rate |-> 10, samples |-> <<0, 0, 0>>]
SpeechWav == [kind |-> "wav", sample_rate |-> 10, samples |-> <<6, 6, 6>>]
InitValidate == InitWith({MissingFile, CorruptFile, SilentWav, SpeechWav})
NextValidate == NextWith(Texts)
SpecValidate == InitValidate /\ [][NextValidate]_vars

\* ------------------------------------------------------------------ claims
Analyzed == pc # "start"

\* C1: whenever the analysis has has_speech = FALSE, process returns right
\* after the detector step: the transcription engine and the validator are
\* never invoked in that run and the result stays empty.
C1_NoSpeechSkipsTranscription ==
    (Analyzed /\ ~analysis.has_speech) =>
        /\ pc \in {"analyzed", "done"}
        /\ engine_calls = 0
        /\ validator_calls = 0
        /\ raw = NoRaw
        /\ result = NoResult
        /\ process_error = "none"

\* C1 witness: a decoded, non-empty recording without speech, and process
\* has returned.
C1_Witness ==
    /\ pc = "done"
    /\ audio.kind = "wav"
    /\ Len(audio.samples) > 0
    /\ ~analyze_error
    /\ ~analysis.has_speech

\* The invariant the data model states for has_speech, on the fields of an
\* analysis value.
HasSpeechDerived(a) ==
    a.has_speech =
        (/\ a.speech_duration >= min_speech_duration
         /\ a.rms_energy.n > 0
         /\ a.rms_energy.sumsq >
               silence_threshold * silence_threshold * a.rms_energy.n)

\* C2 as stated: every analysis value returned, on the normal path and on
\* the exception fallback path alike, has has_speech derived from
\* speech_duration and rms_energy, and has_speech is never true while
\* speech_duration is 0 or rms_energy is 0.
C2_Original ==
    Analyzed =>
        /\ HasSpeechDerived(analysis)
        /\ analysis.has_speech =>
              analysis.speech_duration # 0 /\ analysis.rms_energy.sumsq # 0

\* C2 amended: on the normal path has_speech is derived from
\* speech_duration and rms_energy and is never true while either is 0; the
\* exception fallback path returns has_speech = TRUE with speech_duration 0
\* and rms_energy 0.
C2_HasSpeechDerivedOnNormalPath ==
    Analyzed =>
        IF analyze_error
        THEN /\ analysis.has_speech
             /\ analysis.speech_duration = 0
             /\ analysis.rms_energy.sumsq = 0
        ELSE /\ HasSpeechDerived(analysis)
             /\ analysis.has_speech =>
                   analysis.speech_duration # 0
                   /\ analysis.rms_energy.sumsq # 0

\* C2 witness: a normal-path analysis with enough active windows whose
\* overall energy is at or below the threshold, so has_speech is FALSE.
C2_Witness ==
    /\ Analyzed
    /\ ~analyze_error
    /\ analysis.speech_duration >= min_speech_duration
    /\ ~analysis.has_speech

ConstantLoud(a) ==
    /\ a.kind = "wav"
    /\ \E amp \in Amps :
          /\ amp > silence_threshold
          /\ \A i \in 1..Len(a.samples) : a.samples[i] = amp

\* C3: for audio of constant amplitude above the silence threshold, with N
\* samples and a window of W >= 1 samples, the detector counts exactly
\* floor(N / W) active windows, for every N >= 0, multiples of W included.
C3_CountsEveryFullWindow ==
    (Analyzed /\ ConstantLoud(audio) /\ window_size(audio.sample_rate) >= 1)
        => analysis.speech_duration =
              Len(audio.samples) \div window_size(audio.sample_rate)

\* C4: silence_ratio lies in [0, 1] when duration > 0, and is exactly 1
\* when duration = 0.
C4_SilenceRatioInUnitInterval ==
    Analyzed =>
        IF analysis.duration.num > 0
        THEN /\ 0 <= analysis.silence_ratio.num
             /\ analysis.silence_ratio.num <= analysis.silence_ratio.den
        ELSE analysis.silence_ratio.num = analysis.silence_ratio.den

InvalidFormat(a) ==
    a.kind = "wav" /\ (a.sample_rate <= 0 \/ Len(a.samples) = 0)

\* C5: for audio of invalid format (sample rate <= 0 or no samples) the
\* analysis fails and process does not go on to the transcription engine.
C5_InvalidFormatNeverTranscribed ==
    InvalidFormat(audio) =>
        /\ engine_calls = 0
        /\ pc \notin {"loaded", "responded"}

\* The reply read as the array of objects the engine is asked for.
ReplyIsObjects ==
    /\ json_loads(raw.text).ok
    /\ json_loads(raw.text).value.t = "arr"
    /\ \A i \in 1..Len(json_loads(raw.text).value.v) :
          json_loads(raw.text).value.v[i].t = "obj"

ReplyEntries ==
    [i \in 1..Len(json_loads(raw.text).value.v) |->
        json_loads(raw.text).value.v[i].e]

NumericReply ==
    /\ ReplyIsObjects
    /\ \A i \in 1..Len(ReplyEntries) : ReplyEntries[i].confidence.c = "num"

Validated == pc = "done" /\ validator_calls = 1

KeptTreatingNonNumericAsDefault(e) ==
    e.confidence.c = "num" /\ e.confidence.v >= confidence_threshold

\* C6: an entry whose confidence is absent or not a number counts as 0.5:
\* it is rejected as LowConfidence, validation goes on with the remaining
\* entries and no error is raised.
C6_NonNumericConfidenceIsDefault ==
    (Validated /\ ReplyIsObjects) =>
        /\ result.outcome # "exception"
        /\ process_error = "none"
        /\ result.validated =
              SelectSeq(ReplyEntries, KeptTreatingNonNumericAsDefault)
        /\ Len(result.filtered) + Len(result.validated) = Len(ReplyEntries)

\* C7: text that is not JSON gives the parse-failure outcome, which shows
\* the raw text verbatim and no validated entry; the text "[]" gives the
\* successful empty outcome with no rejection and no warning; valid JSON
\* never gives the parse-failure outcome, malformed JSON never the empty one.
C7_ParseFailureDistinctFromEmpty ==
    Validated =>
        /\ raw.text \in MalformedTexts =>
              /\ result.outcome = "parse_failed"
              /\ result.raw_printed = [shown |-> TRUE, text |-> raw.text]
              /\ result.validated = << >>
        /\ raw.text = <<LB, RB>> =>
              /\ result.outcome = "no_speech"
              /\ result.validated = << >>
              /\ result.filtered = << >>
              /\ result.warnings = << >>
              /\ process_error = "none"
        /\ raw.text \in ValidReplyTexts =>
              /\ result.outcome # "parse_failed"
              /\ ~result.raw_printed.shown

\* C7 witness: an unclosed array was validated and reported as a parse
\* failure.
C7_Witness ==
    /\ Validated
    /\ Len(raw.text) = 2
    /\ raw.text[1] = LB
    /\ raw.text[2].k = "obj"
    /\ result.outcome = "parse_failed"

KeptByThreshold(e) ==
    /\ e.confidence.v >= confidence_threshold
    /\ Len(suspicious_phrases) = 0

\* C8: for an array of entries with numeric confidence the validated list
\* is exactly the subsequence, in the original order, of the entries with
\* confidence >= 0.7 whose lower-cased text contains no suspicious phrase
\* (the phrase list of lines 223-224 is empty: no text contains one);
\* the sanity warning (count > 3 * max(1, floor(speech_duration / 2))) is
\* raised without removing or reordering an entry.
C8_ValidatedIsOrderedSubsequence ==
    (Validated /\ NumericReply) =>
        /\ result.validated = SelectSeq(ReplyEntries, KeptByThreshold)
        /\ process_error = "none"
        /\ (result.warnings # << >>) =
              (Len(SelectSeq(ReplyEntries, KeptByThreshold)) >
                 length_sanity_factor * expected_max_entries(analysis))

\* C8 witness: a reply with entries at 0.69, 0.70 and 0.95, long enough
\* for the sanity warning.
C8_Witness ==
    /\ Validated
    /\ NumericReply
    /\ result.warnings # << >>
    /\ result.filtered # << >>
    /\ \E i, j \in 1..Len(result.validated) :
          /\ i < j
          /\ result.validated[i].confidence.v = 95
          /\ result.validated[j].confidence.v = confidence_threshold

\* C9: no failure terminates a run of process(): no exception escapes it.
C9_NoExceptionEscapes ==
    pc # "raised" /\ process_error # "escaped"

AllZero(a) ==
    a.kind = "wav" /\ \A i \in 1..Len(a.samples) : a.samples[i] = 0

\* C10: for all-zero audio of any sample count and any sample rate the
\* analysis has has_speech = FALSE and speech_duration = 0, so a silent
\* recording is never sent to transcription.  Stated here for well-formed
\* recordings alone (a positive sample rate, at least one sample).
C10_SilenceNeverHasSpeech ==
    (Analyzed /\ AllZero(audio) /\ audio.sample_rate > 0
              /\ Len(audio.samples) > 0) =>
        /\ ~analysis.has_speech
        /\ analysis.speech_duration = 0
        /\ engine_calls = 0

====
